---- MODULE Spec2Model ----
(***************************************************************************)
(* Model of the puzzle solvers (solver.py: DfsSolver, BfsSolver and their  *)
(* helpers) and of the expression tree puzzle (expression_tree_puzzle.py). *)
(* The solvers see a puzzle only through is_solved, extensions, fail_fast  *)
(* and str; two puzzle variants are run through them: the expression tree  *)
(* puzzle of the repository, and a puzzle given by a finite successor      *)
(* graph, which stands for "any puzzle obeying the capability contract".   *)
(***************************************************************************)
EXTENDS Integers, Sequences, FiniteSets, TLC

\* ---------------------------------------------------------------- bounds
MaxNode == 4
MaxEdges == 4
MaxTarget == 11
MaxSeenPick == 2

\* ------------------------------------------------------ program constants
\* range(1, 10) of extensions(): the digits a variable can be given
FirstDigit == 1
StopDigit == 10

VARIABLES
    phase,      \* where the caller is: build, dfs, bfs, while, list_path,
                \* done, or object
    graph,      \* graph puzzle: the set of <<state, successor>> pairs
    goal,       \* graph puzzle: the set of solved states
    prunable,   \* graph puzzle: the states whose fail_fast() is true
    root,       \* the puzzle handed to solve()
    seen0,      \* the seen set handed to solve()
    stack,      \* DfsSolver.solve: the frames of the recursion, innermost last
    ret,        \* DfsSolver.solve: value returned by the frame that just ended
    dfsResult,  \* what DfsSolver.solve(root, seen0) returned
    next_state, \* BfsSolver.solve: the queue
    paths,      \* BfsSolver.solve: canonical string -> the state it came from
    seen,       \* BfsSolver.solve: the address of the set its seen names
    rslt,       \* _list_path: the list being built
    extension,  \* _list_path: its local extension
    bfsResult,  \* what BfsSolver.solve(root, seen0) returned
    sets,       \* the set objects that exist: address -> set of strings
    calls,      \* the calls of solve and of extensions made so far, in order
    dicts,      \* object level: the dictionaries that exist, by address
    parent,     \* object level: the puzzle extensions() was called on
    lst,        \* object level: the list extensions() returned
    before,     \* object level: parent before that call and lst on return
    mutated     \* object level: the element of lst the caller changed, or 0

vars == <<phase, graph, goal, prunable, root, seen0, stack, ret, dfsResult,
          next_state, paths, seen, rslt, extension, bfsResult, sets, calls,
          dicts, parent, lst, before, mutated>>

\* ------------------------------------------------------------- utilities
Range(s) == {s[i] : i \in 1..Len(s)}

Last(s) == s[Len(s)]

\* rslt.reverse() left out
ReverseForgotten(s) == s

RECURSIVE Reverse(_)
Reverse(s) == IF s = <<>> THEN <<>> ELSE Append(Reverse(Tail(s)), Head(s))

\* the elements of a set of integers in ascending order
RECURSIVE Ascending(_)
Ascending(S) ==
    IF S = {} THEN <<>>
    ELSE LET m == CHOOSE x \in S : \A y \in S : x <= y
         IN <<m>> \o Ascending(S \ {m})

\* -------------------------------------------------------- expression tree
\* A tree is [root, num, subtrees]: root is "+" or "*" for an operator, a
\* variable name for a variable, and "" for the literal integer num.
Var(name) == [root |-> name, num |-> 0, subtrees |-> <<>>]
Lit(k) == [root |-> "", num |-> k, subtrees |-> <<>>]
Op(o, kids) == [root |-> o, num |-> 0, subtrees |-> kids]

IsOperator(t) == t.root \in {"+", "*"}
IsLiteral(t) == t.root = ""
IsVariable(t) == ~IsOperator(t) /\ ~IsLiteral(t)

\* A dictionary is a sequence of entries [k, v] in insertion order.
HasKey(d, name) == \E i \in 1..Len(d) : d[i].k = name

Lookup(d, name) == d[CHOOSE i \in 1..Len(d) : d[i].k = name].v

\* d[name] = value
SetItem(d, name, value) ==
    IF HasKey(d, name)
    THEN [i \in 1..Len(d) |-> IF d[i].k = name THEN [k |-> name, v |-> value]
                                               ELSE d[i]]
    ELSE Append(d, [k |-> name, v |-> value])

RECURSIVE DictItems(_, _)
DictItems(d, i) ==
    IF i > Len(d) THEN ""
    ELSE (IF i > 1 THEN ", " ELSE "") \o "'" \o d[i].k \o "': "
         \o ToString(d[i].v) \o DictItems(d, i + 1)

\* str(dict)
DictStr(d) == "{" \o DictItems(d, 1) \o "}"

RECURSIVE eval(_, _)
RECURSIVE EvalSubtrees(_, _, _)
\* ExprTree.eval(lookup): the value of the tree, variables read from lookup
eval(t, lookup) ==
    IF IsLiteral(t) THEN t.num
    ELSE IF IsVariable(t) THEN Lookup(lookup, t.root)
    ELSE EvalSubtrees(t, Len(t.subtrees), lookup)

EvalSubtrees(t, n, lookup) ==
    IF n = 0 THEN (IF t.root = "+" THEN 0 ELSE 1)
    ELSE IF t.root = "+"
         THEN EvalSubtrees(t, n - 1, lookup) + eval(t.subtrees[n], lookup)
         ELSE EvalSubtrees(t, n - 1, lookup) * eval(t.subtrees[n], lookup)

RECURSIVE TreeStr(_)
RECURSIVE SubtreesStr(_, _)
\* ExprTree.__str__: "((a * (b + 6 + 6)) + 5)"
TreeStr(t) ==
    IF IsLiteral(t) THEN ToString(t.num)
    ELSE IF IsVariable(t) THEN t.root
    ELSE "(" \o SubtreesStr(t, 1) \o ")"

SubtreesStr(t, i) ==
    IF i > Len(t.subtrees) THEN ""
    ELSE (IF i > 1 THEN " " \o t.root \o " " ELSE "")
         \o TreeStr(t.subtrees[i]) \o SubtreesStr(t, i + 1)

RECURSIVE populate_lookup(_, _)
RECURSIVE PopulateSubtrees(_, _, _)
\* ExprTree.populate_lookup(lookup): one zero entry per variable of the tree
populate_lookup(t, lookup) ==
    IF IsLiteral(t) THEN lookup
    ELSE IF IsVariable(t) THEN SetItem(lookup, t.root, 0)
    ELSE PopulateSubtrees(t, 1, lookup)

PopulateSubtrees(t, i, lookup) ==
    IF i > Len(t.subtrees) THEN lookup
    ELSE PopulateSubtrees(t, i + 1, populate_lookup(t.subtrees[i], lookup))

\* ExprTree.copy(): a tree with the same shape and content
TreeCopy(t) == t

\* the expression trees puzzles are built from
Trees ==
    { Var("a"),
      Op("+", <<Var("a"), Var("b")>>),
      Op("*", <<Var("a"), Var("b")>>),
      Op("+", <<Op("*", <<Var("a"), Op("+", <<Var("b"), Lit(1)>>)>>), Lit(2)>>),
      Op("*", <<Var("a"), Lit(0)>>),
      Lit(0),
      Lit(3) }

Targets == (0 - 1)..MaxTarget

\* -------------------------------------------------- ExpressionTreePuzzle
\* A puzzle is [tree, target, variables].  At the object level variables is
\* the address of a dictionary in a heap h (a sequence of dictionaries), so
\* that two puzzles can share one dictionary; at the value level it is the
\* dictionary itself.

\* ExpressionTreePuzzle.__init__
ExpressionTreePuzzle(tree, target) ==
    [tree |-> tree, target |-> target,
     variables |-> populate_lookup(tree, <<>>)]

\* the value of the object o in the heap h
Deref(h, o) ==
    [tree |-> o.tree, target |-> o.target, variables |-> h[o.variables]]

\* _copy that hands its own dictionary to the new puzzle
_copyShared(h, o) ==
    [h |-> h,
     obj |-> [tree |-> TreeCopy(o.tree), target |-> o.target,
              variables |-> o.variables]]

\* ExpressionTreePuzzle._copy: a new puzzle on a copy of the tree, whose
\* variables is a new dictionary, self.variables.copy().  (The dictionary
\* __init__ fills first is dropped at once and is not kept in the heap.)
_copy(h, o) ==
    [h |-> Append(h, h[o.variables]),
     obj |-> [tree |-> TreeCopy(o.tree), target |-> o.target,
              variables |-> Len(h) + 1]]

RECURSIVE LoopTurnsEveryVariable(_, _)
\* the loops of extensions() without the test of line 131
LoopTurnsEveryVariable(variable_copy, j) ==
    IF j > Len(variable_copy) THEN <<>>
    ELSE [n \in 1..(StopDigit - FirstDigit) |->
             [variable |-> variable_copy[j].k, i |-> FirstDigit + n - 1]]
         \o LoopTurnsEveryVariable(variable_copy, j + 1)

RECURSIVE LoopTurns(_, _)
\* the turns of the two nested loops of extensions(), in order: for every
\* entry of variable_copy from number j on that is 0, one turn per digit i
LoopTurns(variable_copy, j) ==
    IF j > Len(variable_copy) THEN <<>>
    ELSE (IF variable_copy[j].v = 0
          THEN [n \in 1..(StopDigit - FirstDigit) |->
                   [variable |-> variable_copy[j].k, i |-> FirstDigit + n - 1]]
          ELSE <<>>)
         \o LoopTurns(variable_copy, j + 1)

\* one turn of the inner loop of extensions() (lines 133-135) on the heap
\* st.h with the list st.lst, for the puzzle o
ExtensionsTurn(st, o, variable, i) ==
    LET c1 == _copy(st.h, o)
        temp_puzzle == c1.obj
        h1 == [c1.h EXCEPT ![temp_puzzle.variables] = SetItem(@, variable, i)]
        c2 == _copy(h1, temp_puzzle)
    IN [h |-> c2.h, lst |-> Append(st.lst, c2.obj)]

RECURSIVE ExtensionsLoop(_, _, _, _)
\* the heap and the list after the first n turns.  (The state after n - 1
\* turns is bound by a quantifier so that it is computed once.)
ExtensionsLoop(h, o, turns, n) ==
    IF n = 0 THEN [h |-> h, lst |-> <<>>]
    ELSE CHOOSE after \in
             {ExtensionsTurn(st, o, turns[n].variable, turns[n].i) :
                 st \in {ExtensionsLoop(h, o, turns, n - 1)}} : TRUE

\* ExpressionTreePuzzle.extensions on the object o of the heap h: the heap
\* afterwards and the list returned
extensions(h, o) ==
    CHOOSE after \in
        {ExtensionsLoop(h, o, turns, Len(turns)) :
            turns \in {LoopTurns(h[o.variables], 1)}} : TRUE

\* extensions() of a puzzle value: the values of the puzzles returned
ExprExtensions(p) ==
    CHOOSE values \in
        {[n \in 1..Len(r.lst) |-> Deref(r.h, r.lst[n])] :
            r \in {extensions(<<p.variables>>,
                              [tree |-> p.tree, target |-> p.target,
                               variables |-> 1])}} : TRUE

RECURSIVE AssignedLoop(_, _, _)
\* the loop of is_solved(): assigned after the entries from i on
AssignedLoop(d, i, assigned) ==
    IF i > Len(d) THEN assigned
    ELSE AssignedLoop(d, i + 1, IF d[i].v = 0 THEN FALSE ELSE assigned)

\* is_solved without the test that every variable is assigned
is_solvedUnassigned(p) == eval(p.tree, p.variables) = p.target

\* ExpressionTreePuzzle.is_solved
is_solved(p) ==
    LET assigned == AssignedLoop(p.variables, 1, TRUE)
    IN eval(p.tree, p.variables) = p.target /\ assigned

\* fail_fast without the test of the target's sign
fail_fastAnyTarget(p) == eval(p.tree, p.variables) > p.target

\* ExpressionTreePuzzle.fail_fast
fail_fast(p) ==
    IF p.target <= 0 THEN TRUE
    ELSE IF eval(p.tree, p.variables) > p.target THEN TRUE
    ELSE FALSE

\* __str__ without the assignment of the variables
strTreeOnly(p) == TreeStr(p.tree) \o " = " \o ToString(p.target)

\* ExpressionTreePuzzle.__str__
str(p) ==
    DictStr(p.variables) \o "\n" \o TreeStr(p.tree) \o " = "
    \o ToString(p.target)

\* ---------------------------------------------------------- graph puzzle
\* A puzzle whose states are the nodes 1..MaxNode of the graph in the
\* variable graph: [node |-> n].  Its extensions are the successors of n in
\* ascending order, it is solved on the nodes of goal, and its fail_fast is
\* true on the nodes of prunable.
Nodes == 1..MaxNode

GraphState(n) == [node |-> n]

Successors(n) == {e[2] : e \in {d \in graph : d[1] = n}}

GraphExtensions(p) ==
    LET order == Ascending(Successors(p.node))
    IN [i \in 1..Len(order) |-> GraphState(order[i])]

GraphStr(p) == "state " \o ToString(p.node)

\* the nodes that occur in the graph, the root included
Touched == {1} \cup {e[2] : e \in graph}

RECURSIVE ReachFrom(_, _)
\* the nodes reachable from the set S along edges that do not end in avoid
ReachFrom(S, avoid) ==
    LET more == {e[2] : e \in {d \in graph : d[1] \in S}} \ (S \cup avoid)
    IN IF more = {} THEN S ELSE ReachFrom(S \cup more, avoid)

\* ----------------------------------------------- the capability contract
IsExpression(p) == "tree" \in DOMAIN p

IsSolved(p) == IF IsExpression(p) THEN is_solved(p) ELSE p.node \in goal

Extensions(p) ==
    IF IsExpression(p) THEN ExprExtensions(p) ELSE GraphExtensions(p)

FailFast(p) == IF IsExpression(p) THEN fail_fast(p) ELSE p.node \in prunable

Str(p) == IF IsExpression(p) THEN str(p) ELSE GraphStr(p)

\* Puzzle.__eq__: two states are equal iff their canonical strings are
PuzzleEq(p, q) == Str(p) = Str(q)

\* ------------------------------------------------------- the seen sets
\* A name such as seen refers to a set object; sets maps the address of
\* every set object that exists to the strings in it.
\* the address of the set the caller passes as seen
SeenArg == 1

\* the lowest address at which h has no set
NewAddress(h) ==
    CHOOSE n \in 1..(Cardinality(DOMAIN h) + 1) :
        n \notin DOMAIN h /\ \A m \in 1..(n - 1) : m \in DOMAIN h

\* a union that adds the strings to the set at address a itself
unionInPlace(h, a, strings) ==
    [h |-> [h EXCEPT ![a] = @ \cup strings], addr |-> a]

\* set.union as the solvers call it, seen.union({...}): a new set with the
\* strings of the set at address a and the strings given; addr is where
\* the new set lives
union(h, a, strings) ==
    [h |-> [b \in DOMAIN h \cup {NewAddress(h)} |->
               IF b \in DOMAIN h THEN h[b] ELSE h[a] \cup strings],
     addr |-> NewAddress(h)]

\* the sets of h that one of the names in live refers to; the others are
\* gone
Referenced(h, live) == [a \in DOMAIN h \cap live |-> h[a]]

\* the sets the caller and the frames of DfsSolver.solve refer to
Live(frames) == {SeenArg} \cup {frames[k].seen : k \in 1..Len(frames)}

\* an entry of calls: solver.solve(on, ...) or on.extensions() within it
Call(solver, method, on) == [solver |-> solver, method |-> method, on |-> on]

\* ------------------------------------------------------------ the caller
NoObject == [tree |-> Lit(0), target |-> 0, variables |-> 1]

Init ==
    /\ phase = "build"
    /\ graph = {}
    /\ goal = {}
    /\ prunable = {}
    /\ root = GraphState(1)
    /\ seen0 = {}
    /\ stack = <<>>
    /\ ret = <<>>
    /\ dfsResult = <<>>
    /\ next_state = <<>>
    /\ paths = <<>>
    /\ seen = SeenArg
    /\ sets = [a \in {SeenArg} |-> {}]
    /\ calls = <<>>
    /\ rslt = <<>>
    /\ extension = GraphState(1)
    /\ bfsResult = <<>>
    /\ dicts = <<>>
    /\ parent = NoObject
    /\ lst = <<>>
    /\ before = <<>>
    /\ mutated = 0

solverVars == <<stack, ret, dfsResult, next_state, paths, seen, rslt,
                extension, bfsResult, sets, calls>>
heapVars == <<dicts, parent, lst, before, mutated>>
puzzleVars == <<graph, goal, prunable, root, seen0>>

\* a frame of DfsSolver.solve(puzzle, seen) about to run its first line;
\* s is the address of the set passed as seen
Frame(puzzle, s) ==
    [puzzle |-> puzzle, seen |-> s, exts |-> <<>>, i |-> 0, pc |-> "start"]

\* the caller of a graph puzzle gives the graph one more edge
AddEdge ==
    /\ phase = "build"
    /\ Cardinality(graph) < MaxEdges
    /\ \E i \in Touched, j \in Nodes :
          /\ <<i, j>> \notin graph
          /\ graph' = graph \cup {<<i, j>>}
    /\ UNCHANGED <<phase, goal, prunable, root, seen0, solverVars, heapVars>>

\* the nodes from which no solved node can be reached
Dead(g) == {n \in Touched : ReachFrom({n}, {}) \cap g = {}}

\* the caller hands a graph puzzle to DfsSolver.solve and then to
\* BfsSolver.solve: node 1 is the root, at most one node is solved and at
\* most one canonical string is in seen; fail_fast is never true or, in
\* calls with an empty seen, true exactly on the nodes that cannot reach a
\* solved node.  (Neither solver asks a solved state, or a state of seen
\* other than the root, for its extensions, so such states are given none.)
SolveGraph ==
    /\ phase = "build"
    /\ Touched = 1..Cardinality(Touched)
    /\ \E g \in SUBSET Touched, s \in SUBSET Touched, prune \in BOOLEAN :
          /\ Cardinality(g) <= 1
          /\ Cardinality(s) <= 1
          /\ prune => s = {}
          /\ \A n \in g \cup (s \ {1}) : Successors(n) = {}
          /\ goal' = g
          /\ prunable' = IF prune THEN Dead(g) ELSE {}
          /\ seen0' = {GraphStr(GraphState(n)) : n \in s}
          /\ sets' = [a \in {SeenArg} |-> seen0']
          /\ stack' = <<Frame(root, SeenArg)>>
    /\ phase' = "dfs"
    /\ UNCHANGED <<graph, root, ret, dfsResult, next_state, paths, seen, rslt,
                   extension, bfsResult, calls, heapVars>>

\* the canonical strings a caller may put in seen for the puzzle p: none,
\* that of p, or that of one of its first extensions
SeenPicks(p) ==
    {{}} \cup {{str(p)}}
    \cup {{str(ExprExtensions(p)[n])} :
             n \in 1..(IF Len(ExprExtensions(p)) < MaxSeenPick
                       THEN Len(ExprExtensions(p)) ELSE MaxSeenPick)}

\* the caller builds an expression tree puzzle and hands it to
\* DfsSolver.solve and then to BfsSolver.solve
SolveExpression ==
    /\ phase = "build"
    /\ graph = {}
    /\ \E tree \in Trees, target \in Targets :
          /\ root' = ExpressionTreePuzzle(tree, target)
          /\ \E s \in SeenPicks(root') :
                /\ seen0' = s
                /\ sets' = [a \in {SeenArg} |-> s]
                /\ stack' = <<Frame(root', SeenArg)>>
    /\ phase' = "dfs"
    /\ UNCHANGED <<graph, goal, prunable, ret, dfsResult, next_state, paths,
                   seen, rslt, extension, bfsResult, calls, heapVars>>

\* -------------------------------------------------------------- DfsSolver
\* the innermost frame returns value
DfsReturn(value) ==
    /\ stack' = SubSeq(stack, 1, Len(stack) - 1)
    /\ sets' = Referenced(sets, Live(stack'))
    /\ ret' = value
    /\ IF Len(stack) = 1
       THEN dfsResult' = value /\ phase' = "bfs"
       ELSE UNCHANGED <<dfsResult, phase>>

\* the innermost frame goes on with the fields of f, the sets being h
DfsStep(f, h) ==
    /\ stack' = [stack EXCEPT ![Len(stack)] = f]
    /\ sets' = Referenced(h, Live(stack'))
    /\ UNCHANGED <<ret, dfsResult, phase>>

\* line 80 without its test: no result of a recursive call ends the loop
FoundNever(x) == FALSE

\* line 80, x != []: the recursive call has found a solution
Found(x) == x # <<>>

\* DfsSolver.solve, lines 71-76: up to the head of the for loop
DfsSolve ==
    /\ phase = "dfs"
    /\ Last(stack).pc = "start"
    /\ LET f == Last(stack)
       IN IF IsSolved(f.puzzle)
          THEN /\ DfsReturn(<<f.puzzle>>)
               /\ calls' = Append(calls, Call("DfsSolver", "solve", f.puzzle))
          ELSE \E exts \in {Extensions(f.puzzle)},
                  u \in {union(sets, f.seen, {Str(f.puzzle)})} :
                  /\ DfsStep([f EXCEPT !.seen = u.addr,
                                       !.exts = exts,
                                       !.i = 1,
                                       !.pc = "loop"], u.h)
                  /\ calls' = calls
                         \o <<Call("DfsSolver", "solve", f.puzzle),
                              Call("DfsSolver", "extensions", f.puzzle)>>
    /\ UNCHANGED <<puzzleVars, next_state, paths, seen, rslt, extension,
                   bfsResult, heapVars>>

\* DfsSolver.solve, lines 77-79 and 83-84: one turn of the for loop up to
\* the recursive call, or the return after the last turn
DfsFor ==
    /\ phase = "dfs"
    /\ Last(stack).pc = "loop"
    /\ LET f == Last(stack)
       IN IF f.i > Len(f.exts)
          THEN DfsReturn(<<>>)
          ELSE IF Str(f.exts[f.i]) \notin sets[f.seen]
                  /\ ~FailFast(f.exts[f.i])
               THEN /\ stack' = Append([stack EXCEPT ![Len(stack)].pc = "call"],
                                       Frame(f.exts[f.i], f.seen))
                    /\ UNCHANGED <<sets, ret, dfsResult, phase>>
               ELSE \E u \in {union(sets, f.seen, {Str(f.exts[f.i])})} :
                       DfsStep([f EXCEPT !.seen = u.addr, !.i = f.i + 1], u.h)
    /\ UNCHANGED <<puzzleVars, next_state, paths, seen, rslt, extension,
                   bfsResult, calls, heapVars>>

\* DfsSolver.solve, lines 79-83: the recursive call has returned x
DfsCalled ==
    /\ phase = "dfs"
    /\ Last(stack).pc = "call"
    /\ LET f == Last(stack)
           x == ret
       IN IF Found(x)
          THEN DfsReturn(<<f.puzzle>> \o x)
          ELSE \E u \in {union(sets, f.seen, {Str(f.exts[f.i])})} :
                  DfsStep([f EXCEPT !.seen = u.addr,
                                    !.i = f.i + 1,
                                    !.pc = "loop"], u.h)
    /\ UNCHANGED <<puzzleVars, next_state, paths, seen, rslt, extension,
                   bfsResult, calls, heapVars>>

\* -------------------------------------------------------------- BfsSolver
\* paths.setdefault(key, value): an entry that exists is kept
PathsSetDefault(d, key, value) ==
    [k \in DOMAIN d \cup {key} |-> IF k \in DOMAIN d THEN d[k] ELSE value]

\* paths[key] = value
PathsSet(d, key, value) ==
    [k \in DOMAIN d \cup {key} |-> IF k = key THEN value ELSE d[k]]

\* _ext_checker without the test of line 152: the first extension that is
\* not in seen ends the loop
ExtCheckerTurnUnchecked(st, ext, temp, s) ==
    IF st.found \/ Str(ext) \in s THEN st
    ELSE [next_state |-> Append(st.next_state, ext),
          paths |-> PathsSet(st.paths, Str(ext), temp),
          found |-> TRUE,
          extension |-> ext]

\* one turn of the for loop of _ext_checker (lines 149-153) for extension;
\* st.found says that a solved extension has ended the loop
ExtCheckerTurn(st, ext, temp, s) ==
    IF st.found \/ Str(ext) \in s THEN st
    ELSE [next_state |-> Append(st.next_state, ext),
          paths |-> PathsSet(st.paths, Str(ext), temp),
          found |-> IsSolved(ext),
          extension |-> ext]

RECURSIVE ExtCheckerLoop(_, _, _, _, _, _)
\* the queue and the parent map after the first n turns of the for loop,
\* and the solved extension that ended it if there is one
ExtCheckerLoop(exts, n, temp, queue, parents, s) ==
    IF n = 0
    THEN [next_state |-> queue, paths |-> parents, found |-> FALSE,
          extension |-> temp]
    ELSE CHOOSE after \in
             {ExtCheckerTurn(st, exts[n], temp, s) :
                 st \in {ExtCheckerLoop(exts, n - 1, temp, queue, parents, s)}}
             : TRUE

\* _ext_checker up to its call of _list_path
_ext_checker(temp, queue, parents, s) ==
    CHOOSE after \in
        {ExtCheckerLoop(exts, Len(exts), temp, queue, parents, s) :
            exts \in {Extensions(temp)}} : TRUE

\* BfsSolver.solve, lines 111-117
BfsSolve ==
    /\ phase = "bfs"
    /\ IF IsSolved(root)
       THEN /\ bfsResult' = <<root>>
            /\ phase' = "done"
            /\ UNCHANGED <<next_state, paths, seen>>
       ELSE /\ next_state' = <<root>>
            /\ paths' = <<>>
            /\ seen' = SeenArg
            /\ phase' = "while"
            /\ UNCHANGED bfsResult
    /\ calls' = Append(calls, Call("BfsSolver", "solve", root))
    /\ UNCHANGED <<puzzleVars, stack, ret, dfsResult, rslt, extension, sets,
                   heapVars>>

\* line 120 without its test of seen
BfsAcceptsSeen(temp, s) == ~FailFast(temp)

\* BfsSolver.solve, line 120: the state taken from the queue is expanded;
\* s is the set seen names
BfsAccepts(temp, s) == Str(temp) \notin s /\ ~FailFast(temp)

\* BfsSolver.solve, lines 118-125: one turn of the while loop, or the
\* return after the last one; a solved extension starts _list_path (line 134)
BfsWhile ==
    /\ phase = "while"
    /\ IF next_state = <<>>
       THEN /\ bfsResult' = <<>>
            /\ phase' = "done"
            /\ UNCHANGED <<next_state, paths, seen, sets, calls, rslt,
                           extension>>
       ELSE LET temp == Head(next_state)
            IN IF BfsAccepts(temp, sets[seen])
               THEN \E x \in {_ext_checker(temp, Tail(next_state), paths,
                                           sets[seen])} :
                       /\ next_state' = x.next_state
                       /\ paths' = x.paths
                       /\ calls' = Append(calls,
                                          Call("BfsSolver", "extensions", temp))
                       /\ IF x.found
                          THEN /\ rslt' = <<x.extension>>
                               /\ extension' = x.extension
                               /\ phase' = "list_path"
                               /\ UNCHANGED <<seen, sets>>
                          ELSE /\ \E u \in {union(sets, seen, {Str(temp)})} :
                                     /\ seen' = u.addr
                                     /\ sets' = Referenced(u.h,
                                                           {SeenArg, u.addr})
                               /\ UNCHANGED <<rslt, extension, phase>>
                       /\ UNCHANGED bfsResult
               ELSE /\ next_state' = Tail(next_state)
                    /\ UNCHANGED <<paths, seen, sets, calls, rslt, extension,
                                   phase, bfsResult>>
    /\ UNCHANGED <<puzzleVars, stack, ret, dfsResult, heapVars>>

\* the longest list _list_path is followed to
MaxPath == MaxNode + 2

\* _list_path, lines 135-139: one turn of the while loop, or the return of
\* the reversed list, which BfsSolver.solve returns in turn
ListPath ==
    /\ phase = "list_path"
    /\ IF ~PuzzleEq(Last(rslt), root)
       THEN /\ Len(rslt) < MaxPath
            /\ IF Str(extension) \in DOMAIN paths
               THEN /\ rslt' = Append(rslt, paths[Str(extension)])
                    /\ extension' = paths[Str(extension)]
                    /\ UNCHANGED phase
               ELSE /\ phase' = "KeyError"
                    /\ UNCHANGED <<rslt, extension>>
            /\ UNCHANGED bfsResult
       ELSE /\ bfsResult' = Reverse(rslt)
            /\ phase' = "done"
            /\ UNCHANGED <<rslt, extension>>
    /\ UNCHANGED <<puzzleVars, stack, ret, dfsResult, next_state, paths, seen,
                   sets, calls, heapVars>>

\* ------------------------------------------- puzzles as objects in a heap
\* the caller builds an expression tree puzzle
NewPuzzle ==
    /\ phase = "build"
    /\ graph = {}
    /\ \E tree \in Trees, target \in Targets :
          /\ dicts' = <<populate_lookup(tree, <<>>)>>
          /\ parent' = [tree |-> tree, target |-> target, variables |-> 1]
    /\ phase' = "object"
    /\ UNCHANGED <<puzzleVars, solverVars, lst, before, mutated>>

\* the caller calls extensions() on the puzzle parent
CallExtensions ==
    /\ phase = "object"
    /\ before = <<>>
    /\ \E r \in {extensions(dicts, parent)} :
          /\ dicts' = r.h
          /\ lst' = r.lst
          /\ before' = <<[parent |-> Deref(dicts, parent),
                          lst |-> [n \in 1..Len(r.lst) |->
                                      Deref(r.h, r.lst[n])]]>>
    /\ UNCHANGED <<phase, puzzleVars, solverVars, parent, mutated>>

\* the caller sets a variable of one of the puzzles extensions() returned
SetVariable ==
    /\ phase = "object"
    /\ mutated = 0
    /\ \E n \in 1..Len(lst), j \in 1..Len(dicts[parent.variables]),
          value \in 0..(StopDigit - 1) :
          /\ dicts' = [dicts EXCEPT ![lst[n].variables] =
                          SetItem(@, dicts[parent.variables][j].k, value)]
          /\ mutated' = n
    /\ UNCHANGED <<phase, puzzleVars, solverVars, parent, lst, before>>

\* the caller goes on with one of the puzzles extensions() returned and
\* drops the others
Descend ==
    /\ phase = "object"
    /\ mutated = 0
    /\ \E n \in 1..Len(lst) :
          /\ dicts' = <<dicts[lst[n].variables]>>
          /\ parent' = [lst[n] EXCEPT !.variables = 1]
    /\ lst' = <<>>
    /\ before' = <<>>
    /\ UNCHANGED <<phase, puzzleVars, solverVars, mutated>>

NextObjects == NewPuzzle \/ CallExtensions \/ SetVariable \/ Descend

SpecObjects == Init /\ [][NextObjects]_vars

Next ==
    \/ AddEdge
    \/ SolveGraph
    \/ SolveExpression
    \/ DfsSolve
    \/ DfsFor
    \/ DfsCalled
    \/ BfsSolve
    \/ BfsWhile
    \/ ListPath

Spec == Init /\ [][Next]_vars

\* the solvers run to their end once called; the caller need not call
Solving == DfsSolve \/ DfsFor \/ DfsCalled \/ BfsSolve \/ BfsWhile \/ ListPath

FairSpec == Spec /\ WF_vars(Solving)

\* the same for a caller that solves expression tree puzzles only
NextExpression == SolveExpression \/ Solving

FairSpecExpression == Init /\ [][NextExpression]_vars /\ WF_vars(Solving)

\* ------------------------------------------------- what the claims speak of
\* DfsSolver.solve(root, seen0) has returned dfsResult
DfsDone == phase \in {"bfs", "while", "list_path", "done", "KeyError"}

\* the caller has just called DfsSolver.solve(root, seen0)
Called == phase = "dfs" /\ Len(stack) = 1 /\ Last(stack).pc = "start"

\* BfsSolver.solve(root, seen0) has returned bfsResult
BfsDone == phase = "done"

\* q is, by canonical string, one of the extensions of p
IsExtensionOf(q, p) ==
    \E n \in 1..Len(Extensions(p)) : Str(Extensions(p)[n]) = Str(q)

\* path starts at the state first, ends in a solved state, and each of its
\* states is an extension of the one before
IsSolutionPath(path, first) ==
    /\ Str(path[1]) = Str(first)
    /\ IsSolved(Last(path))
    /\ \A n \in 1..(Len(path) - 1) : IsExtensionOf(path[n + 1], path[n])

RECURSIVE Reachable(_, _)
\* the states some sequence of extensions leads to from the states of S
\* without entering a state whose canonical string is in avoid
Reachable(S, avoid) ==
    LET more == {q \in UNION {Range(Extensions(p)) : p \in S} :
                    Str(q) \notin avoid} \ S
    IN IF more = {} THEN S ELSE Reachable(S \cup more, avoid)

\* a solved state can be reached from p through states not in avoid
Solvable(p, avoid) ==
    /\ Str(p) \notin avoid
    /\ \E q \in Reachable({p}, avoid) : IsSolved(q)

RECURSIVE ShortestFrom(_, _, _, _)
\* the number of states of a shortest sequence of extensions from a state
\* of frontier to a solved state through states not in avoid, when the
\* states of frontier are k-th on it; 0 if there is none
ShortestFrom(frontier, visited, avoid, k) ==
    IF frontier = {} THEN 0
    ELSE IF \E q \in frontier : IsSolved(q) THEN k
    ELSE ShortestFrom(
             {q \in UNION {Range(Extensions(p)) : p \in frontier} :
                 Str(q) \notin avoid} \ (visited \cup frontier),
             visited \cup frontier, avoid, k + 1)

Shortest(p, avoid) ==
    IF Str(p) \in avoid THEN 0 ELSE ShortestFrom({p}, {}, avoid, 1)

\* ------------------------------------------------------------------ claims
\* C1: a non-empty list returned by DfsSolver.solve or BfsSolver.solve
\* starts with the puzzle given, ends in a solved state, and each element
\* is (by canonical string) an extension of the element before it.
C1_ReturnedPathIsSolution ==
    /\ (DfsDone /\ dfsResult # <<>>) => IsSolutionPath(dfsResult, root)
    /\ (BfsDone /\ bfsResult # <<>>) => IsSolutionPath(bfsResult, root)

C1_Witness ==
    /\ BfsDone
    /\ Len(dfsResult) >= 3
    /\ Len(bfsResult) >= 3
    /\ dfsResult # bfsResult

\* C2: a non-empty path returned by BfsSolver.solve has no more states than
\* any sequence of extensions from the root to a solved state that avoids
\* the states of seen.
C2_BfsPathIsShortest ==
    (BfsDone /\ bfsResult # <<>>) =>
        ~(Shortest(root, seen0) > 0 /\ Shortest(root, seen0) < Len(bfsResult))

\* C3: DfsSolver.solve returns the empty list exactly when no sequence of
\* extensions leads from the puzzle to a solved state through states whose
\* canonical strings are not in seen.
C3_DfsEmptyIffNoSolution ==
    DfsDone => (dfsResult = <<>> <=> ~Solvable(root, seen0))

\* C4: on a puzzle from which no solved state can be reached, both solvers
\* terminate and return the empty list.
C4_UnsolvableReturnsEmpty ==
    (Called /\ ~Solvable(root, {})) ~>
        (BfsDone /\ dfsResult = <<>> /\ bfsResult = <<>>)

C4_Witness ==
    /\ BfsDone
    /\ ~Solvable(root, {})
    /\ Cardinality(Reachable({root}, {})) >= 3
    /\ dfsResult = <<>>
    /\ bfsResult = <<>>

\* C5: no state of a path returned by either solver, the root included,
\* has its canonical string in the seen set the solver was called with.
C5_PathAvoidsSeen ==
    /\ DfsDone => \A n \in 1..Len(dfsResult) : Str(dfsResult[n]) \notin seen0
    /\ BfsDone => \A n \in 1..Len(bfsResult) : Str(bfsResult[n]) \notin seen0

\* C6 as stated: on an expression tree puzzle whose target is <= 0 both
\* solvers return the empty list, whatever the expression.
C6_NonPositiveTargetReturnsEmpty ==
    (IsExpression(root) /\ root.target <= 0) =>
        /\ DfsDone => dfsResult = <<>>
        /\ BfsDone => bfsResult = <<>>

\* C6 as amended: on an expression tree puzzle whose target is <= 0 and
\* whose root is not itself solved both solvers return the empty list.
C6_NonPositiveTargetUnsolvedRootReturnsEmpty ==
    (IsExpression(root) /\ root.target <= 0 /\ ~is_solved(root)) =>
        /\ DfsDone => dfsResult = <<>>
        /\ BfsDone => bfsResult = <<>>

C6_Witness ==
    /\ IsExpression(root)
    /\ root.target <= 0
    /\ Len(root.variables) > 0
    /\ BfsDone
    /\ dfsResult = <<>>
    /\ bfsResult = <<>>

\* the puzzles the caller holds at the object level, as values
Values ==
    IF phase = "object"
    THEN {Deref(dicts, o) : o \in {parent} \cup Range(lst)}
    ELSE {}

\* the numbers of the entries of the dictionary d that hold 0, ascending
Unassigned(d) == Ascending({j \in 1..Len(d) : d[j].v = 0})

\* C7: is_solved() is true exactly when every variable is non-zero and the
\* expression evaluates to target under the assignment.
C7_IsSolvedIffAssignedAndOnTarget ==
    \A p \in Values :
        is_solved(p) <=>
            /\ \A j \in 1..Len(p.variables) : p.variables[j].v # 0
            /\ eval(p.tree, p.variables) = p.target

C7_Witness ==
    /\ \E p \in Values :
          /\ eval(p.tree, p.variables) = p.target
          /\ \E j \in 1..Len(p.variables) : p.variables[j].v = 0
          /\ ~is_solved(p)
    /\ \E p \in Values : Len(p.variables) > 0 /\ is_solved(p)

\* C8: extensions() on a state with k variables at 0 returns 9k puzzles:
\* for the r-th unassigned variable in key order and the digit i, element
\* 9(r-1)+i is the parent with this one variable set to i, same tree and
\* target; so every extension has one more variable assigned than its
\* parent and keeps the parent's assigned variables.
C8_ExtensionsAssignOneVariable ==
    \A b \in Range(before) :
        LET zeros == Unassigned(b.parent.variables)
            digits == StopDigit - FirstDigit
        IN /\ Len(b.lst) = 9 * Len(zeros)
           /\ digits = 9
           /\ \A r \in 1..Len(zeros), i \in 1..9 :
                 b.lst[9 * (r - 1) + i] =
                     [tree |-> b.parent.tree,
                      target |-> b.parent.target,
                      variables |->
                          [b.parent.variables EXCEPT ![zeros[r]].v = i]]
           /\ \A n \in 1..Len(b.lst) :
                 /\ Len(Unassigned(b.lst[n].variables)) = Len(zeros) - 1
                 /\ \A j \in 1..Len(b.parent.variables) :
                       b.parent.variables[j].v # 0 =>
                           b.lst[n].variables[j] = b.parent.variables[j]

C8_Witness ==
    \E b \in Range(before) :
        /\ Len(b.parent.variables) = 2
        /\ Len(Unassigned(b.parent.variables)) = 1
        /\ Len(b.lst) = 9

\* C9: a state on which fail_fast() is true is unsolvable: no sequence of
\* extensions leads from it to a solved state, and it is not solved itself.
C9_FailFastImpliesUnsolvable ==
    \A p \in Values : fail_fast(p) => ~Solvable(p, {})

\* C10: extensions() leaves the parent as it was, every puzzle it returns
\* has a dictionary of its own, and setting a variable of one of them
\* changes the canonical string of neither the parent nor another of them.
C10_ExtensionsDoNotAlias ==
    \A b \in Range(before) :
        /\ Deref(dicts, parent) = b.parent
        /\ str(Deref(dicts, parent)) = str(b.parent)
        /\ \A n \in 1..Len(lst) :
              /\ lst[n].variables # parent.variables
              /\ \A m \in 1..Len(lst) :
                    m # n => lst[m].variables # lst[n].variables
              /\ n # mutated =>
                    str(Deref(dicts, lst[n])) = str(b.lst[n])

C10_Witness ==
    /\ mutated # 0
    /\ Len(lst) > 9
    /\ \E b \in Range(before) :
          str(Deref(dicts, lst[mutated])) # str(b.lst[mutated])

\* the state of the puzzle p in which the variable a holds value
Assigned(p, value) == [p EXCEPT !.variables = <<[k |-> "a", v |-> value]>>]

\* the caller has asked to solve the expression a for a target in 1..9
\* without a seen set
SingleVariableCall ==
    /\ IsExpression(root)
    /\ root.tree = Var("a")
    /\ root.target \in 1..9
    /\ seen0 = {}

\* C11: for the expression a and a target t in 1..9, DfsSolver.solve and
\* BfsSolver.solve without a seen set both return exactly the two-element
\* path [a = 0, a = t].
C11_SingleVariableSolvedInOneStep ==
    SingleVariableCall =>
        /\ root = Assigned(root, 0)
        /\ DfsDone => dfsResult = <<root, Assigned(root, root.target)>>
        /\ BfsDone => bfsResult = <<root, Assigned(root, root.target)>>

C11_Witness ==
    /\ SingleVariableCall
    /\ root.target = 4
    /\ BfsDone
    /\ Len(dfsResult) = 2
    /\ str(dfsResult[2]) = "{'a': 4}\na = 4"
    /\ bfsResult = dfsResult

\* the number of variables of the expression puzzle p that hold 0
UnassignedCount(p) == Len(Unassigned(p.variables))

\* every recursive call in progress is on a state with fewer unassigned
\* variables than its caller, and no more calls are in progress than the
\* root has variables, plus one
DfsDescends ==
    (phase = "dfs" /\ IsExpression(root)) =>
        /\ Len(stack) <= Len(root.variables) + 1
        /\ \A k \in 1..(Len(stack) - 1) :
              UnassignedCount(stack[k + 1].puzzle)
                  < UnassignedCount(stack[k].puzzle)

\* C12: DfsSolver.solve terminates on every expression tree puzzle; each
\* recursive call is on a state with strictly fewer unassigned variables
\* than its caller, so the depth of the recursion never exceeds the number
\* of variables plus one.
C12_DfsTerminatesOnExpression ==
    /\ []DfsDescends
    /\ (Called /\ IsExpression(root)) ~> DfsDone

C12_Witness ==
    /\ phase = "dfs"
    /\ IsExpression(root)
    /\ Len(root.variables) = 2
    /\ Len(stack) = 3
    /\ UnassignedCount(Last(stack).puzzle) = 0

\* the puzzles the solver has called method on so far, in order
CallsOf(solver, method) ==
    SelectSeq(calls, LAMBDA c : c.solver = solver /\ c.method = method)

\* no two entries of the sequence of puzzles log have one canonical string
OncePerString(log) ==
    Cardinality({Str(log[n].on) : n \in 1..Len(log)}) = Len(log)

\* C13: during one top-level call of DfsSolver.solve, solve is invoked at
\* most once on any canonical string: a child that failed in one frame is
\* not explored again by a sibling call in an ancestor frame.
C13_DfsSolvesEachStateOnce == OncePerString(CallsOf("DfsSolver", "solve"))

\* C14: during one call of BfsSolver.solve no canonical state is expanded
\* (asked for its extensions by _ext_checker) more than once, however often
\* it is put in the queue: a state is expanded only if it is not in seen
\* when it leaves the queue, and it is in seen from then on while the
\* loop runs.
C14_BfsExpandsEachStateOnce ==
    /\ OncePerString(CallsOf("BfsSolver", "extensions"))
    /\ \A c \in Range(CallsOf("BfsSolver", "extensions")) :
          /\ Str(c.on) \notin seen0
          /\ phase = "while" => Str(c.on) \in sets[seen]

C14_Witness ==
    /\ phase = "while"
    /\ IsExpression(root)
    /\ \E n \in 1..Len(next_state) :
          \E c \in Range(CallsOf("BfsSolver", "extensions")) :
              /\ Str(c.on) = Str(next_state[n])
              /\ ~FailFast(c.on)

\* the canonical strings of the states BfsSolver.solve has expanded
BfsExpanded == {Str(c.on) : c \in Range(CallsOf("BfsSolver", "extensions"))}

\* a turn of the while loop of BfsSolver.solve that ends in the loop: a
\* state that is expanded is the only one added to seen, each of its
\* extensions that is not in seen is put in the queue, queued already or
\* not, and has the expanded state as its parent-map entry from then on; a
\* state that is not expanded changes nothing but the queue
BfsTurn ==
    (phase = "while" /\ next_state # <<>> /\ phase' = "while") =>
        LET temp == Head(next_state)
            fresh == SelectSeq(Extensions(temp),
                               LAMBDA e : Str(e) \notin sets[seen])
        IN IF calls' # calls
           THEN /\ sets'[seen'] = sets[seen] \cup {Str(temp)}
                /\ next_state' = Tail(next_state) \o fresh
                /\ \A e \in Range(fresh) : paths'[Str(e)] = temp
           ELSE /\ sets'[seen'] = sets[seen]
                /\ next_state' = Tail(next_state)
                /\ paths' = paths

\* C15: BfsSolver.solve adds a state to seen only after it has taken it
\* from the queue and expanded it, never when it puts it in the queue; a
\* state that is queued and not yet expanded is put in the queue again by
\* another parent, and that parent takes over its parent-map entry.
C15_BfsMarksSeenOnlyAfterExpansion ==
    /\ [](sets[seen] \subseteq seen0 \cup BfsExpanded)
    /\ [][BfsTurn]_vars

C15_Witness ==
    /\ phase = "while"
    /\ IsExpression(root)
    /\ root.tree = Op("+", <<Var("a"), Var("b")>>)
    /\ \E m, n \in 1..Len(next_state) :
          /\ m < n
          /\ next_state[m] = next_state[n]
          /\ next_state[m].variables = <<[k |-> "a", v |-> 1], [k |-> "b", v |-> 1]>>
          /\ str(next_state[m]) \notin sets[seen]
          /\ paths[str(next_state[m])].variables
                 = <<[k |-> "a", v |-> 0], [k |-> "b", v |-> 1]>>

\* C16: neither solver calls extensions() on a state whose fail_fast() is
\* true; in particular a root that is fail-fast is not expanded.
C16_FailFastStatesNotExpanded ==
    \A c \in Range(calls) : c.method = "extensions" => ~FailFast(c.on)

\* while a recursive call of DfsSolver.solve runs and when it returns, the
\* set each frame below it names as seen holds what it held before
CallersSeenKept ==
    phase = "dfs" =>
        \A k \in 1..(Len(stack) - 1) :
            sets'[stack'[k].seen] = sets[stack[k].seen]

\* C17: seen is threaded by value: the set the caller passes to either
\* solver holds the same strings at every moment of the call and after it,
\* and what a recursive call of DfsSolver.solve marks as seen does not show
\* in the seen of its caller's frame.
C17_SeenThreadedByValue ==
    /\ [](sets[SeenArg] = seen0)
    /\ [][CallersSeenKept]_vars

C17_Witness ==
    /\ phase = "dfs"
    /\ seen0 # {}
    /\ Last(stack).pc = "call"
    /\ ret = <<>>
    /\ LET f == Last(stack)
       IN \E e \in Range(Extensions(f.exts[f.i])) :
              /\ Str(e) \notin sets[f.seen]
              /\ \E c \in Range(CallsOf("DfsSolver", "solve")) : c.on = e

\* a step of DfsSolver.solve in its innermost frame f: a non-empty result
\* of the recursive call makes f return [puzzle] + that result at once; a
\* recursive call is on the extension the loop is at, which is neither in
\* seen nor fail-fast; and the loop moves on, by one extension in the
\* order of extensions(), only from an extension it skipped or whose call
\* returned the empty list
FirstBranchWins ==
    phase = "dfs" =>
        LET f == Last(stack)
            top == Len(stack)
        IN /\ (f.pc = "call" /\ ret # <<>>) =>
                 /\ stack' = SubSeq(stack, 1, top - 1)
                 /\ ret' = <<f.puzzle>> \o ret
                 /\ calls' = calls
           /\ Len(stack') > top =>
                 /\ f.pc = "loop"
                 /\ f.exts = Extensions(f.puzzle)
                 /\ Last(stack').puzzle = f.exts[f.i]
                 /\ Str(f.exts[f.i]) \notin sets[f.seen]
                 /\ ~FailFast(f.exts[f.i])
           /\ (Len(stack') = top /\ stack'[top].i # f.i) =>
                 /\ stack'[top].i = f.i + 1
                 /\ f.pc = "loop" =>
                        \/ Str(f.exts[f.i]) \in sets[f.seen]
                        \/ FailFast(f.exts[f.i])
                 /\ f.pc = "call" => ret = <<>>

\* C18: in DfsSolver.solve the first successful branch wins: the children
\* are tried in the order of extensions(); when a recursive call returns a
\* non-empty path the frame returns [puzzle] followed by that path without
\* a further call on a later sibling, and every earlier sibling was skipped
\* (in seen or fail-fast) or returned the empty list.
C18_DfsFirstSuccessfulBranchWins == [][FirstBranchWins]_vars

C18_Witness ==
    /\ DfsDone
    /\ IsExpression(root)
    /\ Len(dfsResult) >= 2
    /\ LET exts == Extensions(root)
           tried == {c.on : c \in Range(CallsOf("DfsSolver", "solve"))}
       IN \E i \in 2..(Len(exts) - 1) :
              /\ exts[i] = dfsResult[2]
              /\ \A j \in 1..(i - 1) : exts[j] \in tried
              /\ \A j \in (i + 1)..Len(exts) : exts[j] \notin tried

RECURSIVE ChainReachesRoot(_, _)
\* following the parent map from the state e leads to the root in at most
\* n steps
ChainReachesRoot(e, n) ==
    IF PuzzleEq(e, root) THEN TRUE
    ELSE IF n = 0 \/ Str(e) \notin DOMAIN paths THEN FALSE
    ELSE ChainReachesRoot(paths[Str(e)], n - 1)

\* C19: when BfsSolver.solve has found a solved child, following the
\* parent map from it reaches the root: the chain _list_path walks has no
\* cycle, not even a state recorded as its own parent, so _list_path
\* terminates.
C19_ParentChainReachesRoot ==
    phase = "list_path" =>
        ChainReachesRoot(extension, Cardinality(DOMAIN paths))

\* C20: called with the same puzzle and the same seen set (one that holds
\* the root's canonical string and a fail-fast root included),
\* DfsSolver.solve returns a non-empty path if and only if BfsSolver.solve
\* does.
C20_SolversAgreeOnSolvability ==
    BfsDone => (dfsResult # <<>> <=> bfsResult # <<>>)

====
